---- MODULE Spec2Model ----
(***************************************************************************)
(* Model of BookmarkServer.py: a threaded HTTP server that keeps a         *)
(* dictionary MEMORY from short names to long URIs.  Every request is      *)
(* served by its own thread (ThreadingMixIn); the threads share MEMORY     *)
(* without a lock, so a handler is split into steps at every access to     *)
(* MEMORY and at the blocking call requests.get.                           *)
(*                                                                         *)
(* Strings are sequences of one-character strings.                         *)
(***************************************************************************)
EXTENDS Integers, Sequences, FiniteSets, TLC

(***************************************************************************)
(* Bounds and input sets                                                   *)
(***************************************************************************)

\* Number of request threads that can be alive at the same time.
NumThreads == 2

Threads == 1..NumThreads

\* The empty string; also the value of a local variable not yet assigned.
Empty == <<>>

\* Values of the "shortname" form field and names in GET paths.  In
\* code-point order "ab" < "b", although "b" is the shorter one.
Shortnames == { <<"b">>, <<"a", "b">> }

\* Values of the "longuri" form field: without a scheme, with a scheme,
\* without a scheme and with an unbalanced bracket, and with an unbalanced
\* bracket in the network location.
LongUris == { <<"a">>, <<"a", ":">>, <<"[">>, <<"/", "/", "[">> }

\* Longest raw URI of the single-registration specification.
MaxUriLen == 3

\* Characters of its raw URIs: a letter, a digit, and the delimiters that
\* urlparse looks for.
UriChars == {"a", "1", ":", "/", "["}

\* Its raw URIs: every non-empty string of at most MaxUriLen characters.
UriStrings == UNION { [1..n -> UriChars] : n \in 1..MaxUriLen }

\* Status codes a probed server may answer with.
StatusCodes == {200, 404}

\* Python's False, which is the integer 0.
PyFalse == 0

(***************************************************************************)
(* urllib.parse.urlparse, as far as auto_prefix depends on it              *)
(***************************************************************************)

Ord(c) ==
    CASE c = "+" -> 43 [] c = "-" -> 45 [] c = "." -> 46 [] c = "/" -> 47
      [] c = "1" -> 49 [] c = ":" -> 58 [] c = "?" -> 63 [] c = "#" -> 35
      [] c = "[" -> 91 [] c = "]" -> 93
      [] c = "a" -> 97 [] c = "b" -> 98 [] c = "h" -> 104 [] c = "p" -> 112
      [] c = "s" -> 115 [] c = "t" -> 116

IsAlpha(c) == Ord(c) >= 97 /\ Ord(c) <= 122

IsDigit(c) == Ord(c) >= 48 /\ Ord(c) <= 57

\* scheme_chars of urllib.parse: letters, digits and "+-."
IsSchemeChar(c) == IsAlpha(c) \/ IsDigit(c) \/ c \in {"+", "-", "."}

\* str.find for a set of characters: the first index holding one of cs, 0 if none.
Find(url, cs) ==
    IF \E i \in 1..Len(url) : url[i] \in cs
    THEN CHOOSE i \in 1..Len(url) :
             url[i] \in cs /\ \A j \in 1..(i - 1) : url[j] \notin cs
    ELSE 0

\* TRUE when urlsplit recognises a scheme before the first colon.
HasScheme(url) ==
    LET i == Find(url, {":"})
    IN  /\ i > 1
        /\ IsAlpha(url[1])
        /\ \A j \in 1..(i - 1) : IsSchemeChar(url[j])

\* urlparse(url).scheme
UrlScheme(url) ==
    IF HasScheme(url) THEN SubSeq(url, 1, Find(url, {":"}) - 1) ELSE Empty

\* What urlsplit keeps of url after it has taken the scheme off.
AfterScheme(url) ==
    IF HasScheme(url) THEN SubSeq(url, Find(url, {":"}) + 1, Len(url)) ELSE url

\* urlparse(url).netloc: between a leading "//" and the next "/", "?" or "#".
UrlNetloc(url) ==
    LET rest == AfterScheme(url)
    IN  IF Len(rest) >= 2 /\ rest[1] = "/" /\ rest[2] = "/"
        THEN LET tail == SubSeq(rest, 3, Len(rest))
                 e    == Find(tail, {"/", "?", "#"})
             IN  IF e = 0 THEN tail ELSE SubSeq(tail, 1, e - 1)
        ELSE Empty

Contains(s, c) == \E i \in 1..Len(s) : s[i] = c

\* urlparse raises ValueError("Invalid IPv6 URL") for an unbalanced bracket
\* in the network location.
UrlparseRaises(url) ==
    LET netloc == UrlNetloc(url)
    IN  Contains(netloc, "[") # Contains(netloc, "]")

(***************************************************************************)
(* auto_prefix                                                             *)
(***************************************************************************)

HttpsPrefix == <<"h", "t", "t", "p", "s", ":", "/", "/">>

\* auto_prefix raises what urlparse raises: it has no try block.
AutoPrefixRaises(uri) == UrlparseRaises(uri)

\* Variant of auto_prefix: prepends without looking at the scheme.
AlwaysPrefix(uri) == HttpsPrefix \o uri

\* The value auto_prefix returns when urlparse does not raise.
auto_prefix(uri) ==
    IF UrlScheme(uri) = Empty THEN HttpsPrefix \o uri ELSE uri

(***************************************************************************)
(* The dictionary MEMORY and sorted()                                      *)
(***************************************************************************)

\* Variant of Put: a key already present keeps its value.
PutFirstWins(mem, key, value) ==
    IF key \in DOMAIN mem THEN mem
    ELSE [k \in (DOMAIN mem) \cup {key} |-> IF k = key THEN value ELSE mem[k]]

\* Variant of Put: the dictionary is rebuilt with the new entry only.
PutLossy(mem, key, value) == [k \in {key} |-> value]

\* MEMORY[key] = value: adds the key or replaces its value.
Put(mem, key, value) ==
    [k \in (DOMAIN mem) \cup {key} |-> IF k = key THEN value ELSE mem[k]]

\* Variant of InMemory: tests the dictionary instead of the key, "if MEMORY".
MemoryNotEmpty(mem, key) == DOMAIN mem # {}

\* "name in MEMORY": the dictionary has the key.
InMemory(mem, key) == key \in DOMAIN mem

\* Variant of Lookup: reads the value of the first key of the dictionary.
LookupFirst(mem, key) ==
    mem[CHOOSE k \in DOMAIN mem : \A j \in DOMAIN mem : Len(k) >= Len(j)]

\* MEMORY[key] read: the value stored under a key that is present.
Lookup(mem, key) == mem[key]

\* Python's order on str: by code point, a proper prefix first.
StrLess(s, t) ==
    \E i \in 1..(Len(t)) :
        /\ \A j \in 1..(i - 1) : j <= Len(s) /\ s[j] = t[j]
        /\ \/ i = Len(s) + 1
           \/ i <= Len(s) /\ Ord(s[i]) < Ord(t[i])

RECURSIVE SortedDescending(_)
\* Variant of Sorted: the keys in descending order.
SortedDescending(S) ==
    IF S = {} THEN <<>>
    ELSE LET m == CHOOSE x \in S : \A y \in S : x = y \/ StrLess(y, x)
         IN  <<m>> \o SortedDescending(S \ {m})

RECURSIVE Sorted(_)
\* sorted(MEMORY.keys()): the keys in ascending order.
Sorted(S) ==
    IF S = {} THEN <<>>
    ELSE LET m == CHOOSE x \in S : \A y \in S : x = y \/ StrLess(x, y)
         IN  <<m>> \o Sorted(S \ {m})

\* Truth value of what check_uri returns: a status code or False.
Truthy(r) == r # 0

\* Variant of StoreAfterCheck: a rejected URI also removes the old entry.
StoreOrEvict(mem, r, key, value) ==
    IF Truthy(r) THEN Put(mem, key, value)
    ELSE [k \in (DOMAIN mem) \ {key} |-> mem[k]]

\* Variant of StoreAfterCheck: stores whatever check_uri returned.
StoreAlways(mem, r, key, value) == Put(mem, key, value)

\* The dictionary after "if check_uri(longuri): MEMORY[shortname] = longuri".
StoreAfterCheck(mem, r, key, value) ==
    IF Truthy(r) THEN Put(mem, key, value) ELSE mem

\* Variant of ParseQs: blank values are kept (keep_blank_values=True).
ParseQsKeepBlank(body) == body

\* parse_qs: the fields of the form body, blank values dropped.
ParseQs(body) ==
    [f \in {g \in DOMAIN body : body[g] # Empty} |-> body[f]]

\* Form bodies: each field absent, blank or filled in.
Bodies ==
    { b \in UNION { [F -> LongUris \cup Shortnames \cup {Empty}] :
                        F \in SUBSET {"longuri", "shortname"} } :
        /\ "longuri" \in DOMAIN b => b["longuri"] \in LongUris \cup {Empty}
        /\ "shortname" \in DOMAIN b => b["shortname"] \in Shortnames \cup {Empty} }

(***************************************************************************)
(* State                                                                   *)
(***************************************************************************)

VARIABLES
    MEMORY,     \* the dictionary: a function from its keys to long URIs
    pc,         \* pc[t]: where thread t is in its handler
    shortname,  \* do_POST's local shortname
    rawuri,     \* do_POST's params["longuri"][0]
    longuri,    \* do_POST's local longuri
    final_uri,  \* check_uri's local final_uri, the URI requested
    result,     \* what check_uri returned
    name,       \* do_GET's local name
    keys,       \* do_GET's sorted(MEMORY.keys())
    known,      \* do_GET's rows "key : MEMORY[key]" joined so far
    response,   \* the response the handler sends
    last,       \* history: per short name, auto_prefix of the raw URI of the
                \* latest POST that stored under it (Empty: none yet)
    accepted,   \* history: short names some POST has answered 303 for
    snaps       \* history: per listing thread, the stores MEMORY has held since
                \* the key list was built that the listing can still show

locals == <<shortname, rawuri, longuri, final_uri, result, name, keys, known, response>>
history == <<last, accepted>>
vars == <<MEMORY, pc, locals, history, snaps>>

NoResponse == [code |-> 0, text |-> Empty]

Init ==
    /\ MEMORY = << >>
    /\ pc = [t \in Threads |-> "idle"]
    /\ shortname = [t \in Threads |-> Empty]
    /\ rawuri = [t \in Threads |-> Empty]
    /\ longuri = [t \in Threads |-> Empty]
    /\ final_uri = [t \in Threads |-> Empty]
    /\ result = [t \in Threads |-> PyFalse]
    /\ name = [t \in Threads |-> Empty]
    /\ keys = [t \in Threads |-> <<>>]
    /\ known = [t \in Threads |-> <<>>]
    /\ response = [t \in Threads |-> NoResponse]
    /\ last = [s \in Shortnames |-> Empty]
    /\ accepted = [s \in Shortnames |-> FALSE]
    /\ snaps = [t \in Threads |-> {}]

\* A store can be what a listing shows only if it has the keys of the key
\* list and the values of the rows read so far.
Viable(mem, ks, rows) ==
    /\ DOMAIN mem = {ks[i] : i \in 1..Len(ks)}
    /\ \A i \in 1..Len(rows) : mem[rows[i][1]] = rows[i][2]

\* The stores MEMORY has held since thread t built its sorted key list, as
\* far as t's listing can still show them.
SnapsAfter(t) ==
    IF pc'[t] = "listing"
    THEN LET seen == IF pc[t] = "listing" THEN snaps[t] \cup {MEMORY'}
                                         ELSE {MEMORY'}
         IN  {m \in seen : Viable(m, keys'[t], known'[t])}
    ELSE {}

\* Every step records the store it leaves for the listings in progress.
Record == snaps' = [t \in Threads |-> SnapsAfter(t)]

\* A thread that finished a request forgets the handler's locals.
ClearLocals(t) ==
    /\ shortname' = [shortname EXCEPT ![t] = Empty]
    /\ rawuri' = [rawuri EXCEPT ![t] = Empty]
    /\ longuri' = [longuri EXCEPT ![t] = Empty]
    /\ final_uri' = [final_uri EXCEPT ![t] = Empty]
    /\ result' = [result EXCEPT ![t] = PyFalse]
    /\ name' = [name EXCEPT ![t] = Empty]
    /\ keys' = [keys EXCEPT ![t] = <<>>]
    /\ known' = [known EXCEPT ![t] = <<>>]
    /\ response' = [response EXCEPT ![t] = NoResponse]

(***************************************************************************)
(* do_POST                                                                 *)
(***************************************************************************)

\* Lines 111-122: a body without both fields is answered 400.
PostBadRequest(t) ==
    /\ pc[t] = "idle"
    /\ \E body \in Bodies :
         LET params == ParseQs(body)
         IN  "longuri" \notin DOMAIN params \/ "shortname" \notin DOMAIN params
    /\ pc' = [pc EXCEPT ![t] = "respond"]
    /\ response' = [response EXCEPT ![t] = [code |-> 400, text |-> Empty]]
    /\ UNCHANGED <<MEMORY, shortname, rawuri, longuri, final_uri, result, name,
                   keys, known, history>>
    /\ Record

\* Lines 124-127 and 59-61: normalise, enter check_uri, normalise again and
\* send the GET.  An exception of urlparse leaves the handler.
PostRequest(t) ==
    /\ pc[t] = "idle"
    /\ \E body \in Bodies :
         LET params == ParseQs(body)
         IN  /\ "longuri" \in DOMAIN params
             /\ "shortname" \in DOMAIN params
             /\ rawuri' = [rawuri EXCEPT ![t] = params["longuri"]]
             /\ IF AutoPrefixRaises(params["longuri"])
                THEN /\ pc' = [pc EXCEPT ![t] = "raised"]
                     /\ UNCHANGED <<shortname, longuri, final_uri>>
                ELSE /\ longuri' = [longuri EXCEPT ![t] = auto_prefix(params["longuri"])]
                     /\ shortname' = [shortname EXCEPT ![t] = params["shortname"]]
                     /\ IF AutoPrefixRaises(longuri'[t])
                        THEN /\ pc' = [pc EXCEPT ![t] = "raised"]
                             /\ UNCHANGED final_uri
                        ELSE /\ pc' = [pc EXCEPT ![t] = "probing"]
                             /\ final_uri' = [final_uri EXCEPT ![t] = auto_prefix(longuri'[t])]
    /\ UNCHANGED <<MEMORY, result, name, keys, known, response, history>>
    /\ Record

\* Lines 61-62: the probed server answers; check_uri returns the status code.
ProbeResponds(t) ==
    /\ pc[t] = "probing"
    /\ \E status \in StatusCodes : result' = [result EXCEPT ![t] = status]
    /\ pc' = [pc EXCEPT ![t] = "checked"]
    /\ UNCHANGED <<MEMORY, shortname, rawuri, longuri, final_uri, name, keys,
                   known, response, history>>
    /\ Record

\* Lines 63-64: requests.get raises a RequestException; check_uri returns False.
ProbeFails(t) ==
    /\ pc[t] = "probing"
    /\ result' = [result EXCEPT ![t] = PyFalse]
    /\ pc' = [pc EXCEPT ![t] = "checked"]
    /\ UNCHANGED <<MEMORY, shortname, rawuri, longuri, final_uri, name, keys,
                   known, response, history>>
    /\ Record

\* Line 61: requests.get is called without a timeout; when the probed server
\* stays silent the call never returns and the thread has no further step.
ProbeHangs(t) ==
    /\ pc[t] = "probing"
    /\ pc' = [pc EXCEPT ![t] = "hung"]
    /\ UNCHANGED <<MEMORY, locals, history>>
    /\ Record

\* Variant of CheckAndStore: the store waits for a lock that a thread holds
\* while it probes.
CheckAndStoreUnderLock(t) ==
    /\ pc[t] = "checked"
    /\ \A u \in Threads \ {t} : pc[u] \notin {"probing", "hung"}
    /\ MEMORY' = StoreAfterCheck(MEMORY, result[t], shortname[t], longuri[t])
    /\ IF Truthy(result[t])
       THEN /\ response' = [response EXCEPT ![t] = [code |-> 303, text |-> <<"/">>]]
            /\ last' = [last EXCEPT ![shortname[t]] = auto_prefix(rawuri[t])]
       ELSE /\ response' = [response EXCEPT ![t] = [code |-> 404, text |-> longuri[t]]]
            /\ UNCHANGED last
    /\ pc' = [pc EXCEPT ![t] = "respond"]
    /\ UNCHANGED <<shortname, rawuri, longuri, final_uri, result, name, keys,
                   known, accepted>>
    /\ Record

\* Lines 127-140: store and build the 303, or build the 404.
CheckAndStore(t) ==
    /\ pc[t] = "checked"
    /\ MEMORY' = StoreAfterCheck(MEMORY, result[t], shortname[t], longuri[t])
    /\ IF Truthy(result[t])
       THEN /\ response' = [response EXCEPT ![t] = [code |-> 303, text |-> <<"/">>]]
            /\ last' = [last EXCEPT ![shortname[t]] = auto_prefix(rawuri[t])]
       ELSE /\ response' = [response EXCEPT ![t] = [code |-> 404, text |-> longuri[t]]]
            /\ UNCHANGED last
    /\ pc' = [pc EXCEPT ![t] = "respond"]
    /\ UNCHANGED <<shortname, rawuri, longuri, final_uri, result, name, keys,
                   known, accepted>>
    /\ Record

(***************************************************************************)
(* do_GET                                                                  *)
(***************************************************************************)

\* Lines 85-88 and 93-98: "name in MEMORY" for a non-empty name.
GetLookup(t) ==
    /\ pc[t] = "idle"
    /\ \E n \in Shortnames :
         /\ name' = [name EXCEPT ![t] = n]
         /\ IF InMemory(MEMORY, n)
            THEN /\ pc' = [pc EXCEPT ![t] = "redirect"]
                 /\ UNCHANGED response
            ELSE /\ pc' = [pc EXCEPT ![t] = "respond"]
                 /\ response' = [response EXCEPT ![t] = [code |-> 404, text |-> n]]
    /\ UNCHANGED <<MEMORY, shortname, rawuri, longuri, final_uri, result, keys,
                   known, history>>
    /\ Record

\* Variant of GetRedirect: the entry is taken out, MEMORY.pop(name).
GetRedirectPops(t) ==
    /\ pc[t] = "redirect"
    /\ IF name[t] \in DOMAIN MEMORY
       THEN /\ pc' = [pc EXCEPT ![t] = "respond"]
            /\ response' = [response EXCEPT ![t] = [code |-> 303, text |-> Lookup(MEMORY, name[t])]]
            /\ MEMORY' = [k \in (DOMAIN MEMORY) \ {name[t]} |-> MEMORY[k]]
       ELSE /\ pc' = [pc EXCEPT ![t] = "raised"]
            /\ UNCHANGED <<response, MEMORY>>
    /\ UNCHANGED <<shortname, rawuri, longuri, final_uri, result, name,
                   keys, known, history>>
    /\ Record

\* Lines 89-92: read MEMORY[name] for the Location header; a missing key
\* raises KeyError.
GetRedirect(t) ==
    /\ pc[t] = "redirect"
    /\ IF name[t] \in DOMAIN MEMORY
       THEN /\ pc' = [pc EXCEPT ![t] = "respond"]
            /\ response' = [response EXCEPT ![t] = [code |-> 303, text |-> Lookup(MEMORY, name[t])]]
       ELSE /\ pc' = [pc EXCEPT ![t] = "raised"]
            /\ UNCHANGED response
    /\ UNCHANGED <<MEMORY, shortname, rawuri, longuri, final_uri, result, name,
                   keys, known, history>>
    /\ Record

\* Lines 99-106: root path; the generator's iterable sorted(MEMORY.keys()) is
\* built first.
GetRoot(t) ==
    /\ pc[t] = "idle"
    /\ keys' = [keys EXCEPT ![t] = Sorted(DOMAIN MEMORY)]
    /\ known' = [known EXCEPT ![t] = <<>>]
    /\ response' = [response EXCEPT ![t] = [code |-> 200, text |-> Empty]]
    /\ pc' = [pc EXCEPT ![t] = "listing"]
    /\ UNCHANGED <<MEMORY, shortname, rawuri, longuri, final_uri, result, name,
                   history>>
    /\ Record

\* Line 105: one round of the generator reads MEMORY[key] for the next key.
ListRow(t) ==
    /\ pc[t] = "listing"
    /\ Len(known[t]) < Len(keys[t])
    /\ LET key == keys[t][Len(known[t]) + 1]
       IN  IF key \in DOMAIN MEMORY
           THEN /\ known' = [known EXCEPT ![t] = Append(@, <<key, Lookup(MEMORY, key)>>)]
                /\ UNCHANGED pc
           ELSE /\ pc' = [pc EXCEPT ![t] = "raised"]
                /\ UNCHANGED known
    /\ UNCHANGED <<MEMORY, shortname, rawuri, longuri, final_uri, result, name,
                   keys, response, history>>
    /\ Record

\* Lines 105-107: the generator is exhausted; the page is written and the
\* handler returns.
ListDone(t) ==
    /\ pc[t] = "listing"
    /\ Len(known[t]) = Len(keys[t])
    /\ pc' = [pc EXCEPT ![t] = "idle"]
    /\ ClearLocals(t)
    /\ UNCHANGED <<MEMORY, history>>
    /\ Record

(***************************************************************************)
(* End of a request                                                        *)
(***************************************************************************)

\* The handler returns: the response is out and the thread is free for the
\* next connection.
SendResponse(t) ==
    /\ pc[t] = "respond"
    /\ pc' = [pc EXCEPT ![t] = "idle"]
    /\ accepted' = IF shortname[t] # Empty /\ response[t].code = 303
                   THEN [accepted EXCEPT ![shortname[t]] = TRUE]
                   ELSE accepted
    /\ ClearLocals(t)
    /\ UNCHANGED <<MEMORY, last>>
    /\ Record

\* An exception left the handler: socketserver reports it and closes the
\* connection without a response.
HandlerRaised(t) ==
    /\ pc[t] = "raised"
    /\ pc' = [pc EXCEPT ![t] = "idle"]
    /\ ClearLocals(t)
    /\ UNCHANGED <<MEMORY, history>>
    /\ Record

(***************************************************************************)
(* Specifications                                                          *)
(***************************************************************************)

Step(t) ==
    \/ PostBadRequest(t)
    \/ PostRequest(t)
    \/ ProbeResponds(t)
    \/ ProbeFails(t)
    \/ ProbeHangs(t)
    \/ CheckAndStore(t)
    \/ GetLookup(t)
    \/ GetRedirect(t)
    \/ GetRoot(t)
    \/ ListRow(t)
    \/ ListDone(t)
    \/ SendResponse(t)
    \/ HandlerRaised(t)

Next == \E t \in Threads : Step(t)

Spec == Init /\ [][Next]_vars

\* Every thread that can take a step eventually takes one: the threads of
\* ThreadingMixIn are scheduled by the operating system.
LiveSpec == Spec /\ \A t \in Threads : WF_vars(Step(t))

(***************************************************************************)
(* One registration, its two normalisations as steps of their own          *)
(***************************************************************************)

\* Thread 1 has parsed a POST body with both fields (lines 111-116); the
\* other threads are free.
NormInit ==
    /\ MEMORY = << >>
    /\ pc = [t \in Threads |-> IF t = 1 THEN "parsed" ELSE "idle"]
    /\ \E sn \in Shortnames :
         shortname = [t \in Threads |-> IF t = 1 THEN sn ELSE Empty]
    /\ \E raw \in UriStrings :
         rawuri = [t \in Threads |-> IF t = 1 THEN raw ELSE Empty]
    /\ longuri = [t \in Threads |-> Empty]
    /\ final_uri = [t \in Threads |-> Empty]
    /\ result = [t \in Threads |-> PyFalse]
    /\ name = [t \in Threads |-> Empty]
    /\ keys = [t \in Threads |-> <<>>]
    /\ known = [t \in Threads |-> <<>>]
    /\ response = [t \in Threads |-> NoResponse]
    /\ last = [s \in Shortnames |-> Empty]
    /\ accepted = [s \in Shortnames |-> FALSE]
    /\ snaps = [t \in Threads |-> {}]

\* Line 124: longuri = auto_prefix(params["longuri"][0]).
Normalise(t) ==
    /\ pc[t] = "parsed"
    /\ IF AutoPrefixRaises(rawuri[t])
       THEN /\ pc' = [pc EXCEPT ![t] = "raised"]
            /\ UNCHANGED longuri
       ELSE /\ pc' = [pc EXCEPT ![t] = "normalised"]
            /\ longuri' = [longuri EXCEPT ![t] = auto_prefix(rawuri[t])]
    /\ UNCHANGED <<MEMORY, shortname, rawuri, final_uri, result, name, keys,
                   known, response, history>>
    /\ Record

\* Lines 127 and 59-61: check_uri normalises its argument and sends the GET.
NormaliseAgain(t) ==
    /\ pc[t] = "normalised"
    /\ IF AutoPrefixRaises(longuri[t])
       THEN /\ pc' = [pc EXCEPT ![t] = "raised"]
            /\ UNCHANGED final_uri
       ELSE /\ pc' = [pc EXCEPT ![t] = "probing"]
            /\ final_uri' = [final_uri EXCEPT ![t] = auto_prefix(longuri[t])]
    /\ UNCHANGED <<MEMORY, shortname, rawuri, longuri, result, name, keys,
                   known, response, history>>
    /\ Record

\* The registration of thread 1 up to its answer, and lookups by the others.
NormNext ==
    \E t \in Threads :
        \/ Normalise(t)
        \/ NormaliseAgain(t)
        \/ ProbeResponds(t)
        \/ ProbeFails(t)
        \/ CheckAndStore(t)
        \/ GetLookup(t)
        \/ GetRedirect(t)

NormSpec == NormInit /\ [][NormNext]_vars

(***************************************************************************)
(* Steps of a thread, recognised by the change of its pc                   *)
(***************************************************************************)

\* Thread t received GET /name and tested "name in MEMORY".
LookedUp(t) == pc[t] = "idle" /\ pc'[t] \in {"redirect", "respond"} /\ name'[t] # Empty

\* Thread t read MEMORY[name] for the Location header.
Redirected(t) == pc[t] = "redirect" /\ pc'[t] # "redirect"

\* Thread t passed "if check_uri(longuri)" one way or the other.
Checked(t) == pc[t] = "checked" /\ pc'[t] # "checked"

\* Thread t built the sorted key list of a listing.
TookKeys(t) == pc[t] = "idle" /\ pc'[t] = "listing"

\* Thread t is about to answer a POST with the 303 of an accepted registration.
AnswersAccepted(t) ==
    pc[t] = "respond" /\ shortname[t] # Empty /\ response[t].code = 303

\* Thread t is about to answer a POST with the 404 of a rejected registration.
AnswersRejected(t) ==
    pc[t] = "respond" /\ shortname[t] # Empty /\ response[t].code = 404

\* Thread t is about to answer GET /name with a redirect.
AnswersFound(t) ==
    pc[t] = "respond" /\ name[t] # Empty /\ response[t].code = 303

\* Thread t is about to answer GET /name with "I don't know".
AnswersNotFound(t) ==
    pc[t] = "respond" /\ name[t] # Empty /\ response[t].code = 404

\* Thread t has read every row of its listing.
ListComplete(t) == pc[t] = "listing" /\ Len(known[t]) = Len(keys[t])

(***************************************************************************)
(* C1                                                                      *)
(***************************************************************************)

\* C1: once a POST for short name s has been answered 303, every GET /s is
\* answered with a 303 redirect whose Location is auto_prefix of the raw URI
\* of the latest POST that stored under s, whatever other threads do with
\* other short names.
C1_ResolveReturnsAccepted ==
    [][\A t \in Threads :
        /\ (LookedUp(t) /\ accepted[name'[t]]) => pc'[t] = "redirect"
        /\ (Redirected(t) /\ accepted[name[t]]) =>
              /\ pc'[t] = "respond"
              /\ response'[t] = [code |-> 303, text |-> last[name[t]]]
      ]_vars

\* A GET is redirected to the accepted URI of its name while another thread
\* has just stored a different URI under the other short name.
C1_Witness ==
    \E t \in Threads, u \in Threads :
        /\ AnswersFound(t)
        /\ accepted[name[t]]
        /\ response[t].text = last[name[t]]
        /\ AnswersAccepted(u)
        /\ shortname[u] # name[t]
        /\ longuri[u] # response[t].text

(***************************************************************************)
(* C2                                                                      *)
(***************************************************************************)

\* C2: a POST is answered 303 (accepted, stored) only when the probe
\* returned status 200.
C2_AcceptedOnlyFor200 ==
    \A t \in Threads : AnswersAccepted(t) => result[t] = 200

(***************************************************************************)
(* C3                                                                      *)
(***************************************************************************)

\* C3: the step that decides a POST is rejected leaves MEMORY as it was, and
\* so does every other step of a thread that is not an accepting one.
C3_RejectedLeavesStore ==
    [][\A t \in Threads :
        /\ (Checked(t) /\ response'[t].code = 404) => MEMORY' = MEMORY
        /\ (pc'[t] # pc[t] /\ ~Checked(t)) => MEMORY' = MEMORY
      ]_vars

\* A rejected POST for a short name that keeps its earlier, different URI.
C3_Witness ==
    \E t \in Threads :
        /\ AnswersRejected(t)
        /\ shortname[t] \in DOMAIN MEMORY
        /\ MEMORY[shortname[t]] # longuri[t]

(***************************************************************************)
(* C4                                                                      *)
(***************************************************************************)

\* C4: a POST whose probe returned 200 is accepted and its entry is in
\* MEMORY; its store leaves the entries of all other short names in place;
\* and a listing started later has a key for every short name accepted so far.
C4_NoLostUpdate ==
    [][\A t \in Threads :
        /\ (Checked(t) /\ result[t] = 200) =>
              /\ response'[t].code = 303
              /\ shortname[t] \in DOMAIN MEMORY'
              /\ MEMORY'[shortname[t]] = auto_prefix(rawuri[t])
        /\ Checked(t) =>
              \A s \in (DOMAIN MEMORY) \ {shortname[t]} :
                  s \in DOMAIN MEMORY' /\ MEMORY'[s] = MEMORY[s]
        /\ TookKeys(t) =>
              \A s \in Shortnames :
                  accepted[s] => \E i \in 1..Len(keys'[t]) : keys'[t][i] = s
      ]_vars

\* Two concurrent POSTs with different short names, both probed 200, both
\* accepted and both stored.
C4_Witness ==
    \E t \in Threads, u \in Threads :
        /\ AnswersAccepted(t) /\ result[t] = 200
        /\ AnswersAccepted(u) /\ result[u] = 200
        /\ shortname[t] # shortname[u]
        /\ DOMAIN MEMORY = {shortname[t], shortname[u]}
        /\ MEMORY[shortname[t]] = longuri[t]
        /\ MEMORY[shortname[u]] = longuri[u]

(***************************************************************************)
(* C5                                                                      *)
(***************************************************************************)

\* C5: no exception raised while normalising or probing the URI of a POST
\* leaves the handler.
C5_NoExceptionEscapes ==
    \A t \in Threads : ~(pc[t] = "raised" /\ rawuri[t] # Empty)

(***************************************************************************)
(* C6                                                                      *)
(***************************************************************************)

\* C6: every POST that has sent its probe eventually has its answer, 303 or
\* 404, ready.
C6_RegisterReturns ==
    \A t \in Threads : (pc[t] = "probing") ~> (pc[t] = "respond")

(***************************************************************************)
(* C7                                                                      *)
(***************************************************************************)

\* The rows of a listing as a dictionary.
RowsAsStore(rows) ==
    [k \in {rows[i][1] : i \in 1..Len(rows)} |->
        rows[CHOOSE i \in 1..Len(rows) : rows[i][1] = k][2]]

\* C7: the rows of a complete listing are the whole content MEMORY had at
\* one instant between the building of the key list and the last row.
C7_ListIsSnapshot ==
    \A t \in Threads : ListComplete(t) => RowsAsStore(known[t]) \in snaps[t]

(***************************************************************************)
(* C8                                                                      *)
(***************************************************************************)

\* C8: the rows of a listing are in ascending order of short name and no two
\* rows have the same short name.
C8_ListSortedUnique ==
    \A t \in Threads :
        pc[t] = "listing" =>
            /\ \A i \in 1..Len(known[t]) : known[t][i][1] = keys[t][i]
            /\ \A i \in 1..Len(keys[t]), j \in 1..Len(keys[t]) :
                  i < j => /\ StrLess(keys[t][i], keys[t][j])
                           /\ keys[t][i] # keys[t][j]

\* A complete listing of two rows.
C8_Witness ==
    \E t \in Threads : ListComplete(t) /\ Len(known[t]) = 2

(***************************************************************************)
(* C9                                                                      *)
(***************************************************************************)

\* C9: MEMORY holds, for every short name, exactly the normalised URI of
\* the POST that stored under it last, and nothing for a short name no POST
\* has stored under.
C9_LastStoreWins ==
    \A s \in Shortnames :
        IF last[s] = Empty
        THEN s \notin DOMAIN MEMORY
        ELSE s \in DOMAIN MEMORY /\ MEMORY[s] = last[s]

\* Two concurrent POSTs for the same short name with different URIs, both
\* accepted; MEMORY holds the URI of one of them.
C9_Witness ==
    \E t \in Threads, u \in Threads :
        /\ AnswersAccepted(t)
        /\ AnswersAccepted(u)
        /\ shortname[t] = shortname[u]
        /\ longuri[t] # longuri[u]
        /\ MEMORY[shortname[t]] = longuri[t]

(***************************************************************************)
(* C10                                                                     *)
(***************************************************************************)

\* C10 as stated: a GET /s, for a short name s for which no POST has yet
\* been answered 303, is answered 404.
C10_NotFoundUntilAnswered ==
    [][\A t \in Threads :
        (LookedUp(t) /\ ~accepted[name'[t]]) => AnswersNotFound(t)'
      ]_vars

\* C10, amended: MEMORY is empty at start, and a GET /s, for a short name s
\* under which no POST has yet stored, is answered 404.
C10_NotFoundUntilStored ==
    /\ MEMORY = << >>
    /\ [][\A t \in Threads :
            (LookedUp(t) /\ last[name'[t]] = Empty) => AnswersNotFound(t)'
         ]_vars

\* A GET answered 404 although a POST for the other short name has been
\* accepted.
C10_Witness ==
    \E t \in Threads :
        /\ AnswersNotFound(t)
        /\ \E s \in Shortnames : s # name[t] /\ accepted[s] /\ s \in DOMAIN MEMORY

(***************************************************************************)
(* C11                                                                     *)
(***************************************************************************)

\* C11: normalising a normalised URI gives the same URI: the second
\* auto_prefix of a registration returns, and returns its argument.
C11_Idempotent ==
    \A t \in Threads :
        /\ ~(pc[t] = "raised" /\ longuri[t] # Empty)
        /\ pc[t] = "probing" => final_uri[t] = longuri[t]

(***************************************************************************)
(* C12                                                                     *)
(***************************************************************************)

\* A scheme component: a letter, then letters, digits, "+", "-" or ".", up
\* to a colon.
HasSchemeComponent(u) ==
    \E i \in 2..Len(u) :
        /\ u[i] = ":"
        /\ IsAlpha(u[1])
        /\ \A j \in 1..(i - 1) : IsSchemeChar(u[j])

\* C12: once the first auto_prefix of a registration is over, its result is
\* the raw URI itself when that has a scheme component, and "https://"
\* followed by the raw URI when it has none.
C12_PrefixOnlyWhenAbsent ==
    \A t \in Threads :
        (rawuri[t] # Empty /\ pc[t] # "parsed") =>
            longuri[t] = IF HasSchemeComponent(rawuri[t])
                         THEN rawuri[t]
                         ELSE HttpsPrefix \o rawuri[t]

(***************************************************************************)
(* C13                                                                     *)
(***************************************************************************)

\* C13: the step after the probe stores the entry when the probe returned
\* 200 and leaves MEMORY as it was when the probe returned anything else;
\* no other step of a handler changes MEMORY.
C13_OneStoreOnlyWhenLive ==
    [][\A t \in Threads :
        /\ (Checked(t) /\ result[t] = 200) =>
              MEMORY' = Put(MEMORY, shortname[t], longuri[t])
        /\ (Checked(t) /\ result[t] # 200) => MEMORY' = MEMORY
        /\ (pc'[t] # pc[t] /\ ~Checked(t)) => MEMORY' = MEMORY
      ]_vars

(***************************************************************************)
(* C14                                                                     *)
(***************************************************************************)

\* Thread t took a step of do_GET.
GetStep(t) ==
    \/ LookedUp(t)
    \/ Redirected(t)
    \/ TookKeys(t)
    \/ pc[t] = "listing" /\ (pc'[t] # pc[t] \/ known'[t] # known[t])

\* C14: no step of do_GET changes MEMORY or starts a probe, and the redirect
\* of GET /name carries whatever MEMORY holds under the name.
C14_LookupTrustsStore ==
    [][\A t \in Threads :
        /\ GetStep(t) =>
              /\ MEMORY' = MEMORY
              /\ pc'[t] \notin {"probing", "hung", "checked"}
              /\ final_uri'[t] = Empty
        /\ Redirected(t) =>
              /\ pc'[t] = "respond"
              /\ response'[t] = [code |-> 303, text |-> MEMORY[name[t]]]
      ]_vars

\* A GET is redirected to a URI that another thread has just probed without
\* success.
C14_Witness ==
    \E t \in Threads, u \in Threads :
        /\ AnswersFound(t)
        /\ AnswersRejected(u)
        /\ result[u] = PyFalse
        /\ final_uri[u] = response[t].text

(***************************************************************************)
(* C15                                                                     *)
(***************************************************************************)

\* C15: while a thread is inside requests.get, every other thread can take
\* the next step of whatever request it is serving or about to serve.
C15_ProbeBlocksNobody ==
    \A t \in Threads, u \in Threads :
        (t # u /\ pc[t] \in {"probing", "hung"}) =>
            /\ pc[u] = "idle" =>
                  /\ ENABLED PostRequest(u)
                  /\ ENABLED GetLookup(u)
                  /\ ENABLED GetRoot(u)
            /\ pc[u] = "checked" => ENABLED CheckAndStore(u)
            /\ pc[u] = "redirect" => ENABLED GetRedirect(u)
            /\ pc[u] = "listing" => ENABLED (ListRow(u) \/ ListDone(u))
            /\ pc[u] = "respond" => ENABLED SendResponse(u)

\* A POST has stored under the short name of a POST that is stuck in its
\* probe.
C15_Witness ==
    \E t \in Threads, u \in Threads :
        /\ pc[t] = "hung"
        /\ AnswersAccepted(u)
        /\ shortname[u] = shortname[t]
        /\ MEMORY[shortname[t]] = longuri[u]

(***************************************************************************)
(* C16                                                                     *)
(***************************************************************************)

\* C16: a POST gets as far as the probe only with a non-empty longuri and a
\* non-empty shortname, the empty short name is never a key, and the step
\* that answers 400 has normalised nothing and leaves MEMORY as it was.
C16_BadRequestIs400 ==
    /\ [](\A t \in Threads :
            pc[t] \in {"probing", "hung", "checked"} =>
                rawuri[t] # Empty /\ shortname[t] # Empty)
    /\ [](Empty \notin DOMAIN MEMORY)
    /\ [][\A t \in Threads :
            (pc[t] = "idle" /\ response'[t].code = 400) =>
                /\ pc'[t] = "respond"
                /\ MEMORY' = MEMORY
                /\ longuri'[t] = Empty
                /\ final_uri'[t] = Empty
         ]_vars

\* A POST is being answered 400 while MEMORY has an entry.
C16_Witness ==
    \E t \in Threads :
        /\ pc[t] = "respond"
        /\ response[t].code = 400
        /\ DOMAIN MEMORY # {}

(***************************************************************************)
(* C17                                                                     *)
(***************************************************************************)

\* C17: in an accepted registration the URI requested by check_uri is the
\* URI stored, and the URI a GET of the short name is redirected to.
C17_ProbedIsStored ==
    \A t \in Threads :
        AnswersAccepted(t) =>
            /\ final_uri[t] = longuri[t]
            /\ MEMORY[shortname[t]] = final_uri[t]
            /\ \A u \in Threads :
                  (AnswersFound(u) /\ name[u] = shortname[t]) =>
                      response[u].text = final_uri[t]

\* An accepted registration whose raw URI got the prefix, and a GET
\* redirected to the URI that was probed.
C17_Witness ==
    \E t \in Threads, u \in Threads :
        /\ AnswersAccepted(t)
        /\ rawuri[t] # longuri[t]
        /\ AnswersFound(u)
        /\ name[u] = shortname[t]
        /\ response[u].text = final_uri[t]

(***************************************************************************)
(* C18                                                                     *)
(***************************************************************************)

\* C18: no step removes a key of MEMORY; a name that passed the membership
\* test and the keys of a listing in progress are still keys; a GET never
\* ends in KeyError; and a name that is a key is never answered 404.
C18_KeysOnlyGrow ==
    /\ [](\A t \in Threads :
            /\ pc[t] = "redirect" => name[t] \in DOMAIN MEMORY
            /\ pc[t] = "listing" =>
                  \A i \in 1..Len(keys[t]) : keys[t][i] \in DOMAIN MEMORY
            /\ ~(pc[t] = "raised" /\ rawuri[t] = Empty))
    /\ [][/\ \A s \in DOMAIN MEMORY : s \in DOMAIN MEMORY'
          /\ \A t \in Threads :
                (LookedUp(t) /\ name'[t] \in DOMAIN MEMORY) => pc'[t] = "redirect"
         ]_vars

\* A GET between its membership test and its read, while a POST for the same
\* name has just stored.
C18_Witness ==
    \E t \in Threads, u \in Threads :
        /\ pc[t] = "redirect"
        /\ AnswersAccepted(u)
        /\ shortname[u] = name[t]
        /\ MEMORY[name[t]] = longuri[u]

====
